---- MODULE Spec2Model ----
(***************************************************************************)
(* Model of interpolated_rainfall_trend_map.py: the chunked IDW            *)
(* interpolation idw_interpolation (lines 70-123), the grid and the        *)
(* masking stage (lines 55-63 and 125-140), and the seasonal totals of     *)
(* scripts/calculate_seasonal_trends.py (lines 19-47).                     *)
(*                                                                         *)
(* Numbers.  Coordinates are integers counted in a coordinate unit; the    *)
(* distance of line 88 is kept as its square d2 = dx^2 + dy^2, so that     *)
(* "dist < 1e-6" is "d2 < tol2" and "dist <= radius" is                    *)
(* "radius >= 0 /\ d2 <= radius^2".  The power is an even integer          *)
(* (power = 2q, dist^power = d2^q), which keeps every weight rational.     *)
(* Floating point values are exact extended rationals: a finite fraction,  *)
(* +inf, -inf or nan, combined by the IEEE rules numpy applies under       *)
(* np.errstate(divide='ignore', invalid='ignore').  Rounding is not        *)
(* modelled.                                                               *)
(***************************************************************************)
EXTENDS Integers, Sequences, FiniteSets, TLC

(* ------------------------------ bounds --------------------------------- *)
MaxX == 2          \* the bounded inputs lie on the x axis at 0..MaxX
MaxM == 2          \* at most MaxM query points
MaxN == 2          \* at most MaxN source points / source values
MaxNx == 3         \* the lattices have at most MaxNx columns
MaxNy == 2         \* the lattices have at most MaxNy rows
NStations == 2     \* the monthly tables hold NStations stations

(* ------------------------- program constants --------------------------- *)
\* 1e-6 squared, in the squared coordinate unit of the bounded inputs
\* (unit = 5e-7, so the tolerance is 2 units and dist < 1e-6 iff d2 < 4)
TolFine2 == 4
\* 1e-6 squared rounded up to the next integer when the unit is 1:
\* for an integer d2, dist < 1e-6 iff d2 < 1
TolUnit2 == 1
\* the default eps = 1e-12 of the signature, in squared units of 5e-7
EpsDefault == 4
\* the first year of the rainfall record (1989-2023)
FirstYear == 1989

(* --------------------- extended rational numbers ----------------------- *)
Abs(x) == IF x < 0 THEN -x ELSE x

RECURSIVE GCD(_, _)
GCD(a, b) == IF b = 0 THEN a ELSE GCD(b, a % b)

NaN == [kind |-> "nan", n |-> 0, d |-> 1]
Inf == [kind |-> "inf", n |-> 0, d |-> 1]
NInf == [kind |-> "ninf", n |-> 0, d |-> 1]

\* the fraction n/d (d # 0) in lowest terms with a positive denominator
Num(n, d) ==
  LET g == GCD(Abs(n), Abs(d))
      s == IF d < 0 THEN -1 ELSE 1
  IN [kind |-> "num", n |-> (s * n) \div g, d |-> (s * d) \div g]

IsNum(a) == a.kind = "num"

\* a + b for a finite b and a finite or +inf a (dist^power + eps)
XAdd(a, b) ==
  IF a.kind = "num" THEN Num(a.n * b.d + b.n * a.d, a.d * b.d) ELSE a

\* 1.0 / a for a >= 0: 1/0 = inf and 1/inf = 0
XRecip(a) ==
  IF a.kind = "inf" THEN Num(0, 1)
  ELSE IF a.n = 0 THEN Inf
  ELSE Num(a.d, a.n)

\* w * v for a weight w and a finite integer value v (inf * 0 = nan)
XMulVal(w, v) ==
  IF w.kind = "nan" THEN NaN
  ELSE IF w.kind = "inf"
       THEN (IF v > 0 THEN Inf ELSE IF v < 0 THEN NInf ELSE NaN)
  ELSE Num(w.n * v, w.d)

\* a / b for b > 0 finite or b = +inf
XDiv(a, b) ==
  IF a.kind = "nan" THEN NaN
  ELSE IF b.kind = "inf"
       THEN (IF a.kind = "num" THEN Num(0, 1) ELSE NaN)
  ELSE IF a.kind = "num" THEN Num(a.n * b.d, a.d * b.n)
  ELSE a

RECURSIVE RatSum(_)
RatSum(s) ==
  IF s = <<>> THEN Num(0, 1)
  ELSE LET h == Head(s)
           t == RatSum(Tail(s))
       IN IF h.kind = "num" THEN Num(h.n * t.d + t.n * h.d, h.d * t.d) ELSE t

HasKind(s, k) == \E i \in 1..Len(s) : s[i].kind = k

\* np.nansum of a row: nan entries count as 0, inf + (-inf) = nan
NanSum(s) ==
  IF HasKind(s, "inf") /\ HasKind(s, "ninf") THEN NaN
  ELSE IF HasKind(s, "inf") THEN Inf
  ELSE IF HasKind(s, "ninf") THEN NInf
  ELSE RatSum(s)

\* x > 0 for the comparison w_sum > 0
GT0(a) == a.kind = "inf" \/ (a.kind = "num" /\ a.n > 0)

RECURSIVE Pow(_, _)
Pow(b, e) == IF e = 0 THEN 1 ELSE b * Pow(b, e - 1)

Min(a, b) == IF a < b THEN a ELSE b

(* ------------------------------- state --------------------------------- *)
VARIABLES
  grid_x,      \* line 58, <<>> when the points are not built from a lattice
  grid_y,      \* line 59, <<>> when the points are not built from a lattice
  grid_pts,    \* the M query points, a sequence of <<x, y>>
  data_pts,    \* the N source points, a sequence of <<x, y>>
  data_vals,   \* the source values, a sequence of integers
  power,       \* the IDW power (an even integer)
  radius,      \* <<>> for None, <<r>> for radius r
  chunk,       \* the chunk size
  eps,         \* eps, in units^power
  tol2,        \* 1e-6 squared in the squared coordinate unit of the run
  pc,          \* "loop", "returned", "raised" or "masked"
  i0,          \* the loop variable of line 82 (0-based)
  z,           \* the result array of line 80
  visited,     \* the ranges <<i0, i1>> of the iterations run so far
  err,         \* the exception that ended the call, "" when none
  bd_union,    \* the Boundary Region of line 131
  inside_mask, \* line 132
  zi_masked,   \* line 133, flattened
  zi,          \* line 127, a sequence of ny rows of nx entries
  mask_grid,   \* inside_mask.reshape(gx.shape) of line 133
  lon_grid,    \* line 139
  lat_grid,    \* line 140
  df,          \* calculate_seasonal_trends.py: the monthly table, a sequence
               \* of rows [Station, Year, Month, Rainfall]
  season_col,  \* the column df["Season"] of line 40, <<>> before it exists
  seasonal     \* the seasonal totals of lines 43-47, by <<Station, Year, Season>>

vars == <<grid_x, grid_y, grid_pts, data_pts, data_vals, power, radius,
          chunk, eps, tol2, pc, i0, z, visited, err, bd_union, inside_mask,
          zi_masked, zi, mask_grid, lon_grid, lat_grid, df, season_col,
          seasonal>>

inputs == <<grid_x, grid_y, grid_pts, data_pts, data_vals, power, radius,
            chunk, eps, tol2>>

grids == <<zi, mask_grid, lon_grid, lat_grid>>

\* the state of calculate_seasonal_trends.py
tables == <<df, season_col, seasonal>>

M == Len(grid_pts)
N == Len(data_pts)
NoRadius == <<>>

(* ---------------------- idw_interpolation, per row --------------------- *)
\* dist squared of lines 86-88
Dist2(p, q) == (p[1] - q[1]) * (p[1] - q[1]) + (p[2] - q[2]) * (p[2] - q[2])

\* exact[j, n] of line 91
exact(g, n) == Dist2(g, data_pts[n]) < tol2

\* any_exact[j] of line 92
any_exact(g) == \E n \in 1..N : exact(g, n)

\* the first True of the boolean row exact[j, :]
FirstExact(g) == CHOOSE n \in 1..N : exact(g, n) /\ \A m \in 1..(n - 1) : ~exact(g, m)

\* data_vals[exact[j, :]][0] of line 96 (the lengths agree)
ExactValue(g) == Num(data_vals[FirstExact(g)], 1)

\* mutant of mask_within: the radius is ignored
mask_within_mut(g, n) == TRUE

\* mutant of mask_within: a source at distance exactly radius is excluded
mask_within_strict(g, n) ==
  \/ radius = NoRadius
  \/ /\ radius # NoRadius
     /\ radius[1] >= 0
     /\ Dist2(g, data_pts[n]) < radius[1] * radius[1]

\* mask_within[j, n] of lines 99-103
mask_within(g, n) ==
  \/ radius = NoRadius
  \/ /\ radius # NoRadius
     /\ radius[1] >= 0
     /\ Dist2(g, data_pts[n]) <= radius[1] * radius[1]

\* mutant of DistPow: the power is applied to the squared distance
DistPow_mut(d2, p) ==
  IF p > 0 THEN Num(Pow(d2, p), 1)
  ELSE IF p = 0 THEN Num(1, 1)
  ELSE IF d2 = 0 THEN Inf
  ELSE Num(1, Pow(d2, -p))

\* np.power(dist, power) for a distance that is not nan
DistPow(d2, p) ==
  LET q == p \div 2
  IN IF q > 0 THEN Num(Pow(d2, q), 1)
     ELSE IF q = 0 THEN Num(1, 1)
     ELSE IF d2 = 0 THEN Inf
     ELSE Num(1, Pow(d2, -q))

\* w[j, n] of line 108; np.power(nan, 0.0) is 1.0, any other power of nan is nan
Weight(g, n) ==
  IF mask_within(g, n)
  THEN XRecip(XAdd(DistPow(Dist2(g, data_pts[n]), power), Num(eps, 1)))
  ELSE IF power = 0 THEN XRecip(XAdd(Num(1, 1), Num(eps, 1)))
  ELSE NaN

\* w_sum[j] of line 111
w_sum(g) == NanSum([n \in 1..N |-> Weight(g, n)])

\* valid[j] of line 114
valid(g) == GT0(w_sum(g))

\* the shapes (nv, N) and (1, L) of line 118 broadcast
Broadcasts == N = Len(data_vals) \/ Len(data_vals) = 1 \/ N = 1

\* the row of w[valid, :] * data_vals[None, :] for a valid row (line 118)
Products(g) ==
  IF N = Len(data_vals)
  THEN [n \in 1..N |-> XMulVal(Weight(g, n), data_vals[n])]
  ELSE IF Len(data_vals) = 1
  THEN [n \in 1..N |-> XMulVal(Weight(g, n), data_vals[1])]
  ELSE [l \in 1..Len(data_vals) |-> XMulVal(Weight(g, 1), data_vals[l])]

\* mutant of Estimate: the weighted sum is not divided by w_sum
Estimate_mut(g) == NanSum(Products(g))

\* weighted / w_sum[valid] of lines 118-120 for a valid row
Estimate(g) == XDiv(NanSum(Products(g)), w_sum(g))

(* ------------------- idw_interpolation, per chunk ---------------------- *)
\* mutant of ChunkEnd: the chunk ends one index early
ChunkEnd_mut(a) == Min(M, a + chunk - 1)

\* i1 of line 83
ChunkEnd(a) == Min(M, a + chunk)

\* the 1-based positions of the rows of the chunk [a, b)
Rows(a, b) == (a + 1)..b

\* lines 93-96: rows with an exact match take the value of the first match
ZAfterExact(zz, a, b) ==
  [k \in 1..M |-> IF k \in Rows(a, b) /\ any_exact(grid_pts[k])
                  THEN ExactValue(grid_pts[k])
                  ELSE zz[k]]

\* z_chunk of lines 119-120: nan, and the estimate on the valid rows
ZChunk(g) == IF valid(g) THEN Estimate(g) ELSE NaN

\* mutant of ZAfterWrite: z_chunk is written at z[0:i1-i0]
ZAfterWrite_mut(zz, a, b) ==
  IF \E k \in Rows(a, b) : valid(grid_pts[k])
  THEN [k \in 1..M |-> IF k \in 1..(b - a) THEN ZChunk(grid_pts[k + a]) ELSE zz[k]]
  ELSE zz

\* lines 116-121: when some row of the chunk is valid, the whole slice
\* z[i0:i1] is replaced by z_chunk
ZAfterWrite(zz, a, b) ==
  IF \E k \in Rows(a, b) : valid(grid_pts[k])
  THEN [k \in 1..M |-> IF k \in Rows(a, b) THEN ZChunk(grid_pts[k]) ELSE zz[k]]
  ELSE zz

\* line 96 indexes data_vals with a boolean row of length N: IndexError
\* when the lengths differ
IndexErrorAt(a, b) ==
  /\ \E k \in Rows(a, b) : any_exact(grid_pts[k])
  /\ Len(data_vals) # N

\* line 118 multiplies shapes (nv, N) and (1, L): ValueError when they do
\* not broadcast
ValueErrorAt(a, b) ==
  /\ \E k \in Rows(a, b) : valid(grid_pts[k])
  /\ ~Broadcasts

(* ------------------------------ the grid ------------------------------- *)
\* np.linspace(lo, lo + step * (n - 1), n) of lines 58-59
LinSpace(lo, step, n) == [i \in 1..n |-> lo + step * (i - 1)]

\* gx of line 60 (np.meshgrid, indexing 'xy'): row r holds grid_x
MeshX(xs, ys) == [r \in 1..Len(ys) |-> [c \in 1..Len(xs) |-> xs[c]]]

\* gy of line 60: row r holds grid_y[r] in every column
MeshY(xs, ys) == [r \in 1..Len(ys) |-> [c \in 1..Len(xs) |-> ys[r]]]

\* a.ravel() of lines 63 and 137 for rows of ncols entries (C order)
Ravel(a, ncols) ==
  [k \in 1..(Len(a) * ncols) |-> a[((k - 1) \div ncols) + 1][((k - 1) % ncols) + 1]]

\* np.vstack((gx.ravel(), gy.ravel())).T of lines 63 and 137
GridPoints(xs, ys) ==
  LET fx == Ravel(MeshX(xs, ys), Len(xs))
      fy == Ravel(MeshY(xs, ys), Len(xs))
  IN [k \in 1..(Len(xs) * Len(ys)) |-> <<fx[k], fy[k]>>]

\* gx.shape as <<rows, columns>>; a bare list of M points is one row
GxShape ==
  IF grid_y = <<>> THEN <<1, Len(grid_pts)>> ELSE <<Len(grid_y), Len(grid_x)>>

\* mutant of Reshape: the flat array is read in column-major order
Reshape_mut(flat, shape) ==
  [r \in 1..shape[1] |-> [c \in 1..shape[2] |-> flat[(c - 1) * shape[1] + r]]]

\* flat.reshape(shape) of lines 127, 133, 139 and 140 (C order)
Reshape(flat, shape) ==
  [r \in 1..shape[1] |-> [c \in 1..shape[2] |-> flat[(r - 1) * shape[2] + c]]]

\* transformer.transform of line 138 acts on each point alone: the
\* longitude is a function of x, the latitude a function of y
Lon(p) == <<"lon", p[1]>>
Lat(p) == <<"lat", p[2]>>

(* ------------------------- the masking stage --------------------------- *)
\* mutant of Contains: the closed region, boundary included
Contains_mut(r, p) ==
  r.x0 <= p[1] /\ p[1] <= r.x1 /\ r.y0 <= p[2] /\ p[2] <= r.y1

\* bd_union.contains(Point(px, py)) for an axis-parallel rectangle: the
\* point is in the interior (shapely's contains excludes the boundary)
Contains(r, p) == r.x0 < p[1] /\ p[1] < r.x1 /\ r.y0 < p[2] /\ p[2] < r.y1

NoRegion == [x0 |-> 0, y0 |-> 0, x1 |-> 0, y1 |-> 0]

\* line 132
InsideMask(r) == [k \in 1..M |-> Contains(r, grid_pts[k])]

\* mutant of ZiMasked: the branches of np.where are exchanged
ZiMasked_mut(mask, flat) == [k \in 1..M |-> IF mask[k] THEN NaN ELSE flat[k]]

\* line 133
ZiMasked(mask, flat) == [k \in 1..M |-> IF mask[k] THEN flat[k] ELSE NaN]

(* ------------------------------ inputs --------------------------------- *)
SeqsUpTo(S, n) == UNION {[1..m -> S] : m \in 0..n}

Pts == {<<x, 0>> : x \in 0..MaxX}
\* query grids: sequences of distinct points
GridSeqs(S, n) ==
  {s \in SeqsUpTo(S, n) : \A i, j \in 1..Len(s) : i # j => s[i] # s[j]}
\* source points in the order of their x coordinate
SortedSeqs(n) ==
  {s \in SeqsUpTo(Pts, n) : \A i \in 1..(Len(s) - 1) : s[i][1] <= s[i + 1][1]}
\* source values 1, 2, .. and .., 1, 0
Asc(L) == [i \in 1..L |-> i]
Desc(L) == [i \in 1..L |-> L - i]
Radii == {NoRadius, <<0>>, <<1>>, <<2>>}

Far == 11
Regions ==
  { [x0 |-> -1, y0 |-> -1, x1 |-> 1, y1 |-> Far],
    [x0 |-> 0, y0 |-> -1, x1 |-> Far, y1 |-> Far],
    [x0 |-> -1, y0 |-> -1, x1 |-> Far, y1 |-> Far] }

\* the sources of the worked example: (0,0)=10, (10,0)=20, (0,10)=30
ExamplePts == << <<0, 0>>, <<10, 0>>, <<0, 10>> >>
ExampleVals == <<10, 20, 30>>

\* source sets in two dimensions with the coordinate unit 1: the worked
\* example and pairs of its sources, as <<points, values>>
UnitSources ==
  { <<ExamplePts, ExampleVals>>,
    << << <<0, 0>>, <<10, 0>> >>, <<10, 20>> >>,
    << << <<0, 10>>, <<10, 0>> >>, <<30, 20>> >>,
    << << <<10, 0>>, <<0, 0>> >>, <<20, 10>> >> }
UnitQueries == { <<5, 0>>, <<0, 0>>, <<5, 5>>, <<2, 0>>, <<2, 8>> }
UnitRadii == {NoRadius, <<5>>, <<10>>}

\* lines 78-80: M, N and z = np.full(M, np.nan)
Start ==
  /\ pc = "loop"
  /\ i0 = 0
  /\ z = [k \in 1..M |-> NaN]
  /\ visited = <<>>
  /\ err = ""
  /\ bd_union = NoRegion
  /\ inside_mask = <<>>
  /\ zi_masked = <<>>
  /\ zi = <<>>
  /\ mask_grid = <<>>
  /\ lon_grid = <<>>
  /\ lat_grid = <<>>
  /\ df = <<>>
  /\ season_col = <<>>
  /\ seasonal = <<>>

\* idw_interpolation called on a list of points that is no lattice
NoLattice == grid_x = <<>> /\ grid_y = <<>>

\* calls within the contract, coordinate unit 5e-7: one value per source,
\* positive power, default eps
InitCore ==
  /\ NoLattice
  /\ grid_pts \in GridSeqs(Pts, MaxM)
  /\ data_pts \in SortedSeqs(MaxN)
  /\ data_vals \in {Asc(N), Desc(N)}
  /\ power \in {2, 4}
  /\ radius \in Radii
  /\ chunk \in 1..MaxM
  /\ eps = EpsDefault
  /\ tol2 = TolFine2
  /\ Start

\* calls the contract excludes, coordinate unit 5e-7: any number of values,
\* power <= 0, eps = 0
InitOther ==
  /\ NoLattice
  /\ grid_pts \in GridSeqs(Pts, 1)
  /\ data_pts \in SortedSeqs(MaxN)
  /\ \E L \in 0..MaxN : data_vals = Asc(L)
  /\ power \in {-2, 0, 2}
  /\ radius \in {NoRadius, <<1>>}
  /\ chunk = 1
  /\ eps \in {0, EpsDefault}
  /\ tol2 = TolFine2
  /\ Start

\* calls in two dimensions, coordinate unit 1, eps = 0
InitUnit ==
  /\ NoLattice
  /\ grid_pts \in GridSeqs(UnitQueries, 2)
  /\ \E s \in UnitSources : data_pts = s[1] /\ data_vals = s[2]
  /\ power = 2
  /\ radius \in UnitRadii
  /\ chunk \in 1..2
  /\ eps = 0
  /\ tol2 = TolUnit2
  /\ Start

\* the pipeline of lines 55-63 and 126: a lattice of nx columns and ny
\* rows with spacing 2 that meets no source, coordinate unit 1, eps = 0
InitLattice ==
  /\ \E nx \in 1..MaxNx : grid_x = LinSpace(0, 2, nx)
  /\ \E ny \in 1..MaxNy : grid_y = LinSpace(1, 2, ny)
  /\ grid_pts = GridPoints(grid_x, grid_y)
  /\ \E s \in UnitSources :
       Len(s[1]) = 2 /\ data_pts = s[1] /\ data_vals = s[2]
  /\ power = 2
  /\ radius \in UnitRadii
  /\ chunk \in {1, 2, Len(grid_x)}
  /\ eps = 0
  /\ tol2 = TolUnit2
  /\ Start

Init == InitCore \/ InitOther \/ InitUnit \/ InitLattice

(* ------------------------------ actions -------------------------------- *)
\* one iteration of the loop of lines 82-121
LoopChunk ==
  /\ pc = "loop"
  /\ i0 < M
  /\ LET i1 == ChunkEnd(i0)
     IN IF IndexErrorAt(i0, i1)
        THEN /\ pc' = "raised"
             /\ err' = "IndexError"
             /\ UNCHANGED <<i0, z>>
        ELSE IF ValueErrorAt(i0, i1)
        THEN /\ pc' = "raised"
             /\ err' = "ValueError"
             /\ UNCHANGED <<i0, z>>
        ELSE /\ z' = ZAfterWrite(ZAfterExact(z, i0, i1), i0, i1)
             /\ i0' = i0 + chunk
             /\ UNCHANGED <<pc, err>>
  /\ visited' = Append(visited, <<i0, ChunkEnd(i0)>>)
  /\ UNCHANGED <<tables, inputs, bd_union, inside_mask, zi_masked, grids>>

\* line 123: the range is exhausted, z is returned
Return ==
  /\ pc = "loop"
  /\ i0 >= M
  /\ pc' = "returned"
  /\ UNCHANGED <<tables, inputs, i0, z, visited, err, bd_union, inside_mask,
               zi_masked, grids>>

\* lines 126-140: the returned field is reshaped and masked by the
\* Boundary Region, the grid is transformed back to lon/lat
MaskGrid ==
  /\ pc = "returned"
  /\ \E r \in Regions :
       /\ bd_union' = r
       /\ inside_mask' = InsideMask(r)
       /\ zi_masked' = ZiMasked(InsideMask(r), z)
       /\ mask_grid' = Reshape(InsideMask(r), GxShape)
  /\ zi' = Reshape(z, GxShape)
  /\ lon_grid' = Reshape([k \in 1..M |-> Lon(grid_pts[k])], GxShape)
  /\ lat_grid' = Reshape([k \in 1..M |-> Lat(grid_pts[k])], GxShape)
  /\ pc' = "masked"
  /\ UNCHANGED <<tables, inputs, i0, z, visited, err>>

Next == LoopChunk \/ Return \/ MaskGrid

Spec == Init /\ [][Next]_vars

TypeOK ==
  /\ pc \in {"loop", "returned", "raised", "masked"}
  /\ Len(z) = M

(* ------------- calculate_seasonal_trends.py, lines 19-47 --------------- *)
\* the value None of line 38
None == "None"

\* line 52 and map_all_seasonal_rainfall_trends.py line 41
seasons == <<"Winter", "Pre-monsoon", "Monsoon", "Post-monsoon">>

\* the month a three-letter label of season_months names
MonthOf(label) ==
  CASE label = "Dec" -> 12 [] label = "Feb" -> 2 [] label = "Mar" -> 3
    [] label = "May" -> 5 [] label = "Jun" -> 6 [] label = "Sep" -> 9
    [] label = "Oct" -> 10 [] label = "Nov" -> 11

\* map_all_seasonal_rainfall_trends.py lines 42-47, each label "Xxx-Yyy"
\* as the pair of its month names
season_months ==
  [ss \in {"Winter", "Pre-monsoon", "Monsoon", "Post-monsoon"} |->
     CASE ss = "Winter" -> <<"Dec", "Feb">>
       [] ss = "Pre-monsoon" -> <<"Mar", "May">>
       [] ss = "Monsoon" -> <<"Jun", "Sep">>
       [] ss = "Post-monsoon" -> <<"Oct", "Nov">>]

\* mutant of classify_season: December is left out of the Winter list
classify_season_mut(month) ==
  IF month \in {1, 2} THEN "Winter"
  ELSE IF month \in {3, 4, 5} THEN "Pre-monsoon"
  ELSE IF month \in {6, 7, 8, 9} THEN "Monsoon"
  ELSE IF month \in {10, 11} THEN "Post-monsoon"
  ELSE None

\* lines 28-38
classify_season(month) ==
  IF month \in {12, 1, 2} THEN "Winter"
  ELSE IF month \in {3, 4, 5} THEN "Pre-monsoon"
  ELSE IF month \in {6, 7, 8, 9} THEN "Monsoon"
  ELSE IF month \in {10, 11} THEN "Post-monsoon"
  ELSE None

\* df["Month"].apply(classify_season) of line 40
SeasonColumn(d) == [i \in 1..Len(d) |-> classify_season(d[i].Month)]

\* a Rainfall cell is <<v>> for the number v and <<>> for NaN (line 25);
\* the sum of pandas skips NaN
Cell(c) == IF c = <<>> THEN 0 ELSE c[1]

\* the keys of groupby(["Station", "Year", "Season"]) of line 44: rows
\* whose Season is None belong to no group
GroupKeys(d, col) ==
  {<<d[i].Station, d[i].Year, col[i]>> : i \in {j \in 1..Len(d) : col[j] # None}}

\* ["Rainfall"].sum() of lines 44-45 for one group, over the rows 1..n
RECURSIVE GroupSum(_, _, _, _)
GroupSum(d, col, key, n) ==
  IF n = 0 THEN 0
  ELSE GroupSum(d, col, key, n - 1)
       + (IF <<d[n].Station, d[n].Year, col[n]>> = key
          THEN Cell(d[n].Rainfall) ELSE 0)

\* the table seasonal of lines 43-47
SeasonalTotals(d, col) ==
  [key \in GroupKeys(d, col) |-> GroupSum(d, col, key, Len(d))]

\* the rows of one station and year: sequences of <<Month, Rainfall>>
Whole == [m \in 1..12 |-> <<m, <<m>>>>]
Gaps == << <<0, <<7>>>>, <<1, <<1>>>>, <<6, <<>>>>, <<12, <<8>>>>, <<13, <<5>>>> >>
Dry == << <<3, <<>>>>, <<10, <<0>>>> >>
Profiles == {Whole, Gaps, Dry, <<>>}

\* the stations and years of the table, in the order of the file
StationYears ==
  [k \in 1..(2 * NStations) |-> <<((k - 1) \div 2) + 1, FirstYear + ((k - 1) % 2)>>]

\* the monthly table (line 19) whose k-th station and year has the rows
\* prof[k], sorted by Station, Year and Month
RECURSIVE Table(_, _)
Table(prof, k) ==
  IF k = 0 THEN <<>>
  ELSE Table(prof, k - 1) \o
       [i \in 1..Len(prof[k]) |->
          [Station |-> StationYears[k][1], Year |-> StationYears[k][2],
           Month |-> prof[k][i][1], Rainfall |-> prof[k][i][2]]]

\* idw_interpolation is not part of this script
NoCall ==
  /\ NoLattice
  /\ grid_pts = <<>> /\ data_pts = <<>> /\ data_vals = <<>>
  /\ power = 2 /\ radius = NoRadius /\ chunk = 1
  /\ eps = EpsDefault /\ tol2 = TolFine2
  /\ i0 = 0 /\ z = <<>> /\ visited = <<>> /\ err = ""
  /\ bd_union = NoRegion /\ inside_mask = <<>> /\ zi_masked = <<>>
  /\ zi = <<>> /\ mask_grid = <<>> /\ lon_grid = <<>> /\ lat_grid = <<>>

\* lines 19-25: the monthly table is loaded
InitSeason ==
  /\ \E prof \in [1..(2 * NStations) -> Profiles] :
       df = Table(prof, 2 * NStations)
  /\ season_col = <<>>
  /\ seasonal = <<>>
  /\ pc = "loaded"
  /\ NoCall

\* line 40: the column Season
ClassifyRows ==
  /\ pc = "loaded"
  /\ season_col' = SeasonColumn(df)
  /\ pc' = "classified"
  /\ UNCHANGED <<df, seasonal, inputs, i0, z, visited, err, bd_union,
                 inside_mask, zi_masked, grids>>

\* lines 43-47: the seasonal totals
Aggregate ==
  /\ pc = "classified"
  /\ seasonal' = SeasonalTotals(df, season_col)
  /\ pc' = "aggregated"
  /\ UNCHANGED <<df, season_col, inputs, i0, z, visited, err, bd_union,
                 inside_mask, zi_masked, grids>>

NextSeason == ClassifyRows \/ Aggregate

SpecSeason == InitSeason /\ [][NextSeason]_vars

(* ------------------------------- claims -------------------------------- *)
\* idw_interpolation has returned its field z
Returned == pc \in {"returned", "masked"}

\* query point k
Q(k) == grid_pts[k]

\* C1: Exact match.  When the call has returned (positive power, eps > 0,
\* one value per source), every query point that lies within the 1e-6
\* tolerance of a source holds exactly the value of a source it coincides
\* with.
C1_ExactMatch ==
  (Returned /\ power > 0 /\ eps > 0 /\ Len(data_vals) = N)
    => \A k \in 1..M :
         any_exact(Q(k))
           => \E n \in 1..N : exact(Q(k), n) /\ z[k] = Num(data_vals[n], 1)

\* the field idw_interpolation computes with chunk size c, from index a on
RECURSIVE RunFrom(_, _, _)
RunFrom(zz, a, c) ==
  IF a >= M THEN zz
  ELSE LET b == Min(M, a + c)
       IN RunFrom(ZAfterWrite(ZAfterExact(zz, a, b), a, b), a + c, c)

\* C2: Chunk invariance.  The field returned for the chunk size of the call
\* equals, at every index, the field computed with chunk = 1 and the field
\* computed with chunk = M (positive power, one value per source).
C2_ChunkInvariance ==
  (Returned /\ power > 0 /\ Len(data_vals) = N /\ M >= 1)
    => /\ z = RunFrom([k \in 1..M |-> NaN], 0, 1)
       /\ z = RunFrom([k \in 1..M |-> NaN], 0, M)

\* C3: Empty-source failure.  A call with no source point (and no source
\* value, positive power) and at least one query point never returns a
\* field.
C3_EmptySourceFails ==
  (N = 0 /\ Len(data_vals) = 0 /\ power > 0 /\ M >= 1) => ~Returned

\* source n is at a distance of at most the given radius from g, or no
\* radius is given
InReach(g, n) ==
  \/ radius = NoRadius
  \/ /\ radius # NoRadius
     /\ radius[1] >= 0
     /\ Dist2(g, data_pts[n]) <= radius[1] * radius[1]

\* every source is farther than the given radius from g
AllBeyond(g) == \A n \in 1..N : ~InReach(g, n)

C5_MaskingPrecedence ==
  /\ pc # "masked" => zi_masked = <<>> /\ inside_mask = <<>>
  /\ pc = "masked" =>
       /\ i0 >= M
       /\ Len(zi_masked) = M
       /\ \A k \in 1..M :
            zi_masked[k] = IF Contains(bd_union, Q(k)) THEN z[k] ELSE NaN

\* masked: a point outside the region lost a numeric estimate, a point
\* inside kept its number
C5_Witness ==
  /\ pc = "masked" /\ power > 0 /\ Len(data_vals) = N /\ eps > 0
  /\ \E k \in 1..M :
       ~Contains(bd_union, Q(k)) /\ IsNum(z[k]) /\ zi_masked[k] = NaN
  /\ \E k \in 1..M :
       Contains(bd_union, Q(k)) /\ IsNum(z[k]) /\ zi_masked[k] = z[k]

\* C6: Length-mismatch failure.  A call whose number of source values
\* differs from its number of source points (positive power, eps > 0, at
\* least one source point and one query point) never returns a field.
C6_LengthMismatchFails ==
  (Len(data_vals) # N /\ N >= 1 /\ power > 0 /\ eps > 0 /\ M >= 1) => ~Returned

\* C7: Non-positive power failure.  A call with power <= 0 (one value per
\* source, at least one source and one query point) never returns a field.
C7_NonPositivePowerFails ==
  (power <= 0 /\ Len(data_vals) = N /\ N >= 1 /\ M >= 1) => ~Returned

\* the chunk [a, b) that holds position k
ChunkStart(k) == ((k - 1) \div chunk) * chunk

\* the entry of query point k: the estimate of its row when a row of its
\* chunk is valid, else the exact-match value of its row, else nan
Expected(k) ==
  LET a == ChunkStart(k)
      b == ChunkEnd(a)
  IN IF \E j \in Rows(a, b) : valid(Q(j)) THEN ZChunk(Q(k))
     ELSE IF any_exact(Q(k)) THEN ExactValue(Q(k))
     ELSE NaN

\* C8: Result alignment.  z always has M entries; while the loop runs, the
\* entries of the chunks already processed (positions up to i0) hold the
\* results of their query points and every later entry is still nan, so a
\* chunk is written at its own offsets i0..i1-1 and nowhere else; when the
\* call returns (i0 >= M) entry k is the result of query point k, for all k.
C8_ResultAlignment ==
  /\ Len(z) = M
  /\ pc = "returned" => i0 >= M
  /\ pc \in {"loop", "returned"} =>
       \A k \in 1..M : z[k] = IF k <= i0 THEN Expected(k) ELSE NaN

\* two chunks of one row each, with different numbers at the two indices
C8_Witness ==
  /\ Returned /\ M = 2 /\ chunk = 1 /\ power > 0 /\ Len(data_vals) = N
  /\ IsNum(z[1]) /\ IsNum(z[2]) /\ z[1] # z[2]

StrictlyBetween(g, a, b) ==
  /\ a # b
  /\ (g[1] - a[1]) * (b[2] - a[2]) = (g[2] - a[2]) * (b[1] - a[1])
  /\ (g[1] - a[1]) * (b[1] - a[1]) + (g[2] - a[2]) * (b[2] - a[2]) > 0
  /\ (g[1] - b[1]) * (a[1] - b[1]) + (g[2] - b[2]) * (a[2] - b[2]) > 0

\* lo <= a <= hi for a fraction a and integers lo, hi
InRange(a, lo, hi) == IsNum(a) /\ lo * a.d <= a.n /\ a.n <= hi * a.d

\* the two sources, with different values, and query point k strictly
\* between them on their segment; no radius, or both within the radius
TwoSourceCase(k) ==
  /\ N = 2 /\ Len(data_vals) = 2 /\ data_vals[1] # data_vals[2]
  /\ power > 0
  /\ StrictlyBetween(Q(k), data_pts[1], data_pts[2])
  /\ InReach(Q(k), 1) /\ InReach(Q(k), 2)

\* C9: Monotonic locality.  In the two-source case the returned estimate is
\* a number between the smaller and the larger of the two values.
C9_MonotonicLocality ==
  Returned =>
    \A k \in 1..M :
      TwoSourceCase(k) =>
        InRange(z[k], Min(data_vals[1], data_vals[2]),
                -Min(-data_vals[1], -data_vals[2]))

\* a query point at unequal distances from the two sources, no exact match
C9_Witness ==
  /\ Returned
  /\ \E k \in 1..M :
       /\ TwoSourceCase(k)
       /\ ~any_exact(Q(k))
       /\ Dist2(Q(k), data_pts[1]) # Dist2(Q(k), data_pts[2])
       /\ IsNum(z[k])

\* the call of the worked example, with the query point (5,0) at index k
ExampleCase(k) ==
  /\ data_pts = ExamplePts /\ data_vals = ExampleVals
  /\ power = 2 /\ radius = NoRadius /\ eps = 0
  /\ Q(k) = <<5, 0>>

\* C10: End-to-end example.  The weights of the three sources at (5,0) are
\* 1/25, 1/25 and 1/125, the returned estimate is 180/11, and it lies
\* between 10 and 20.
C10_EndToEndExample ==
  \A k \in 1..M :
    ExampleCase(k) =>
      /\ Weight(Q(k), 1) = Num(1, 25)
      /\ Weight(Q(k), 2) = Num(1, 25)
      /\ Weight(Q(k), 3) = Num(1, 125)
      /\ Returned => (z[k] = Num(180, 11) /\ InRange(z[k], 10, 20))

C10_Witness ==
  /\ Returned
  /\ \E k \in 1..M : ExampleCase(k) /\ z[k] = Num(180, 11)

\* position k (0-based) of the flat arrays lies in row k div nx and column
\* k mod nx of the (ny, nx) arrays
RowOf(k, nx) == (k \div nx) + 1
ColOf(k, nx) == (k % nx) + 1

\* C11: Stable row-major ordering.  In a lattice run the grid has nx * ny
\* points, grid point k (0-based) is (grid_x[k mod nx], grid_y[k div nx]),
\* and after masking the entries at [k div nx][k mod nx] of zi, of the
\* reshaped mask and of lon_grid / lat_grid are the value of z, the
\* containment flag and the lon / lat of grid point k.
C11_RowMajorOrdering ==
  ~NoLattice =>
    LET nx == Len(grid_x)
        ny == Len(grid_y)
    IN /\ M = nx * ny
       /\ \A k \in 0..(M - 1) :
            /\ grid_pts[k + 1] = <<grid_x[ColOf(k, nx)], grid_y[RowOf(k, nx)]>>
            /\ pc = "masked" =>
                 /\ zi[RowOf(k, nx)][ColOf(k, nx)] = z[k + 1]
                 /\ mask_grid[RowOf(k, nx)][ColOf(k, nx)]
                      = (/\ bd_union.x0 < grid_x[ColOf(k, nx)]
                         /\ grid_x[ColOf(k, nx)] < bd_union.x1
                         /\ bd_union.y0 < grid_y[RowOf(k, nx)]
                         /\ grid_y[RowOf(k, nx)] < bd_union.y1)
                 /\ lon_grid[RowOf(k, nx)][ColOf(k, nx)]
                      = <<"lon", grid_x[ColOf(k, nx)]>>
                 /\ lat_grid[RowOf(k, nx)][ColOf(k, nx)]
                      = <<"lat", grid_y[RowOf(k, nx)]>>

\* a masked lattice of two rows and three columns whose entries differ
C11_Witness ==
  /\ ~NoLattice /\ pc = "masked"
  /\ Len(grid_x) = 3 /\ Len(grid_y) = 2
  /\ zi[1][2] # zi[2][1]
  /\ IsNum(zi[2][3])
  /\ mask_grid[2][1] /\ ~mask_grid[1][2]

\* the sources that lie within the exact-match tolerance of g
Within(g) == {n \in 1..N : Dist2(g, data_pts[n]) < tol2}

\* C12: Deterministic tie-break.  When the call has returned (positive
\* power, eps > 0, one value per source), a query point with two or more
\* sources of different values within the tolerance holds the value of the
\* one that comes first in the order of the sources.
C12_TieBreak ==
  (Returned /\ power > 0 /\ eps > 0 /\ Len(data_vals) = N)
    => \A k \in 1..M :
         (\E a, b \in Within(Q(k)) : data_vals[a] # data_vals[b])
           => \E n \in Within(Q(k)) :
                /\ \A m \in Within(Q(k)) : n <= m
                /\ z[k] = Num(data_vals[n], 1)

\* the sum, over the sources 1..n within reach of g, of 1 / (d^power + eps)
\* (of value / (d^power + eps) when weighted) for a positive even power
RECURSIVE ReachSum(_, _, _)
ReachSum(g, n, weighted) ==
  IF n = 0 THEN Num(0, 1)
  ELSE IF InReach(g, n)
  THEN XAdd(ReachSum(g, n - 1, weighted),
            Num(IF weighted THEN data_vals[n] ELSE 1,
                Pow(Dist2(g, data_pts[n]), power \div 2) + eps))
  ELSE ReachSum(g, n - 1, weighted)

\* every weight of the row of g is a finite number
FiniteWeights(g) == eps > 0 \/ \A n \in 1..N : Dist2(g, data_pts[n]) > 0

\* C13: Radius filtering.  For a positive power, one value per source and
\* finite weights, the weight sum and the weighted sum of a query point are
\* the sums over exactly the sources with d <= radius (over all sources
\* when no radius is given), and a processed query point with a source in
\* reach holds the quotient of these two sums: the sources beyond the
\* radius do not enter it.  The sums depend on the inputs alone and are
\* compared when the call starts.
C13_RadiusFiltering ==
  (power > 0 /\ Len(data_vals) = N)
    => \A k \in 1..M :
         FiniteWeights(Q(k))
           => /\ (pc = "loop" /\ i0 = 0)
                   => /\ w_sum(Q(k)) = ReachSum(Q(k), N, FALSE)
                      /\ NanSum(Products(Q(k))) = ReachSum(Q(k), N, TRUE)
                      /\ valid(Q(k)) <=> \E n \in 1..N : InReach(Q(k), n)
              /\ (/\ pc \in {"loop", "returned"}
                  /\ k <= i0
                  /\ \E n \in 1..N : InReach(Q(k), n))
                   => z[k] = XDiv(ReachSum(Q(k), N, TRUE),
                                  ReachSum(Q(k), N, FALSE))

\* a returned call with a radius, a query point with one source at distance
\* exactly radius and another beyond it, and a numeric result
C13_Witness ==
  /\ pc = "returned" /\ radius # NoRadius /\ power > 0 /\ Len(data_vals) = N
  /\ \E k \in 1..M :
       /\ FiniteWeights(Q(k))
       /\ \E n \in 1..N : Dist2(Q(k), data_pts[n]) = radius[1] * radius[1]
       /\ \E n \in 1..N : Dist2(Q(k), data_pts[n]) > radius[1] * radius[1]
       /\ IsNum(z[k])

\* p lies on the boundary of the rectangle r
OnBoundary(r, p) ==
  \/ p[1] \in {r.x0, r.x1} /\ r.y0 <= p[2] /\ p[2] <= r.y1
  \/ p[2] \in {r.y0, r.y1} /\ r.x0 <= p[1] /\ p[1] <= r.x1

\* C14 as stated: Boundary-inclusive masking.  A grid point on the boundary
\* of the Boundary Region is flagged inside and keeps its interpolated
\* value in the final field.
C14_BoundaryInclusiveAsStated ==
  pc = "masked" =>
    \A k \in 1..M :
      OnBoundary(bd_union, Q(k)) => inside_mask[k] /\ zi_masked[k] = z[k]

\* C14: Boundary-exclusive masking.  A grid point on the boundary of the
\* Boundary Region is flagged not inside by the masking stage and is
\* undefined (NaN) in the final field, whatever its interpolated value.
C14_BoundaryExcluded ==
  pc = "masked" =>
    \A k \in 1..M :
      OnBoundary(bd_union, Q(k)) => ~inside_mask[k] /\ zi_masked[k] = NaN

\* a masked field with a grid point on the boundary whose interpolated
\* value is a number and whose final value is undefined
C14_Witness ==
  /\ pc = "masked"
  /\ \E k \in 1..M :
       OnBoundary(bd_union, Q(k)) /\ IsNum(z[k]) /\ zi_masked[k] = NaN

\* ceil(a / b) for b >= 1
CeilDiv(a, b) == (a + b - 1) \div b

\* the 0-based query indices of the i-th range visited
Covered(i) == {j \in 0..(M - 1) : visited[i][1] <= j /\ j < visited[i][2]}

\* C15: Chunk loop coverage and termination.  For every M >= 0 and every
\* chunk >= 1 the ranges [i0, i1) visited so far are non-empty, of size at
\* most chunk, pairwise disjoint and ascending, and cover exactly the
\* indices below i0; each iteration advances i0 by chunk, there are never
\* more than ceil(M / chunk) iterations, and the call returns after exactly
\* ceil(M / chunk) of them with every query index in exactly one range.
C15_LoopCoverage ==
  /\ chunk >= 1
  /\ Len(visited) <= CeilDiv(M, chunk)
  /\ \A i \in 1..Len(visited) :
       /\ 0 <= visited[i][1] /\ visited[i][2] <= M
       /\ Covered(i) # {}
       /\ Cardinality(Covered(i)) = visited[i][2] - visited[i][1]
       /\ Cardinality(Covered(i)) <= chunk
       /\ \A j \in (i + 1)..Len(visited) :
            \A a \in Covered(i), b \in Covered(j) : a < b
  /\ pc = "loop" =>
       /\ UNION {Covered(i) : i \in 1..Len(visited)}
            = {j \in 0..(M - 1) : j < i0}
       /\ Len(visited) = CeilDiv(M, chunk) <=> i0 >= M
       /\ i0 = Len(visited) * chunk
  /\ Returned =>
       /\ Len(visited) = CeilDiv(M, chunk)
       /\ \A j \in 0..(M - 1) :
            Cardinality({i \in 1..Len(visited) : j \in Covered(i)}) = 1

\* a returned call of several iterations whose last range is shorter than
\* chunk
C15_Witness ==
  /\ Returned
  /\ Len(visited) >= 2
  /\ visited[Len(visited)][2] - visited[Len(visited)][1] < chunk
  /\ visited[Len(visited)][2] = M

\* the sum of the Rainfall cells of the rows of d with index in I
RECURSIVE RainOf(_, _)
RainOf(d, I) ==
  IF I = {} THEN 0
  ELSE LET i == CHOOSE j \in I : TRUE
       IN (IF d[i].Rainfall = <<>> THEN 0 ELSE d[i].Rainfall[1])
          + RainOf(d, I \ {i})

\* the months of each season, as the claim lists them
MonthsOfSeason ==
  [ss \in {"Winter", "Pre-monsoon", "Monsoon", "Post-monsoon"} |->
     CASE ss = "Winter" -> {12, 1, 2}
       [] ss = "Pre-monsoon" -> {3, 4, 5}
       [] ss = "Monsoon" -> {6, 7, 8, 9}
       [] ss = "Post-monsoon" -> {10, 11}]

\* the rows of station st and year y whose month lies in the set ms
RowsIn(st, y, ms) ==
  {i \in 1..Len(df) : df[i].Station = st /\ df[i].Year = y /\ df[i].Month \in ms}

\* the sum of the seasonal totals that exist for station st and year y
RECURSIVE TotalsOf(_, _, _)
TotalsOf(st, y, n) ==
  IF n = 0 THEN 0
  ELSE TotalsOf(st, y, n - 1)
       + (IF <<st, y, seasons[n]>> \in DOMAIN seasonal
          THEN seasonal[<<st, y, seasons[n]>>] ELSE 0)

\* C16: Seasonal aggregation.  classify_season maps each month 1..12 to the
\* one season whose list holds it (Winter 12, 1, 2; Pre-monsoon 3-5;
\* Monsoon 6-9; Post-monsoon 10, 11, the months the season_months labels
\* name) and any other value to None; the column Season holds these values;
\* there is one seasonal total per station, year and season that has a row,
\* it is the sum of the rows of that station and calendar year whose month
\* is in the season's list (the Winter total of year Y sums months 1, 2 and
\* 12 of year Y), and the totals of a station and year add up to the sum of
\* its rows of months 1..12.
C16_SeasonalAggregation ==
  /\ \A m \in 1..12 :
       /\ Cardinality({n \in 1..4 : classify_season(m) = seasons[n]}) = 1
       /\ m \in MonthsOfSeason[classify_season(m)]
  /\ \A m \in {-1, 0, 13, 14} : classify_season(m) = None
  /\ \A n \in 1..4 :
       LET lo == MonthOf(season_months[seasons[n]][1])
           hi == MonthOf(season_months[seasons[n]][2])
       IN MonthsOfSeason[seasons[n]]
            = IF lo <= hi THEN lo..hi ELSE (lo..12) \cup (1..hi)
  /\ pc \in {"classified", "aggregated"} =>
       /\ Len(season_col) = Len(df)
       /\ \A i \in 1..Len(df) :
            IF df[i].Month \in 1..12
            THEN /\ season_col[i] \in {seasons[n] : n \in 1..4}
                 /\ df[i].Month \in MonthsOfSeason[season_col[i]]
            ELSE season_col[i] = None
  /\ pc = "aggregated" =>
       \A k \in 1..Len(StationYears) :
         LET st == StationYears[k][1]
             y == StationYears[k][2]
         IN /\ \A n \in 1..4 :
                 LET rows == RowsIn(st, y, MonthsOfSeason[seasons[n]])
                 IN /\ <<st, y, seasons[n]>> \in DOMAIN seasonal <=> rows # {}
                    /\ rows # {} =>
                         seasonal[<<st, y, seasons[n]>>] = RainOf(df, rows)
            /\ RowsIn(st, y, {1, 2, 12}) # {} =>
                 seasonal[<<st, y, "Winter">>]
                   = RainOf(df, RowsIn(st, y, {1, 2, 12}))
            /\ TotalsOf(st, y, 4) = RainOf(df, RowsIn(st, y, 1..12))
  /\ pc = "aggregated" =>
       \A key \in DOMAIN seasonal :
         \E k \in 1..Len(StationYears) :
           key[1] = StationYears[k][1] /\ key[2] = StationYears[k][2]

\* the totals of a table in which one station has every month in one year
\* and, in the year before, a December with another rainfall and rows of
\* months outside 1..12
C16_Witness ==
  /\ pc = "aggregated"
  /\ \E st \in 1..NStations :
       /\ \A n \in 1..4 : <<st, FirstYear + 1, seasons[n]>> \in DOMAIN seasonal
       /\ seasonal[<<st, FirstYear + 1, "Winter">>] = 15
       /\ <<st, FirstYear, "Winter">> \in DOMAIN seasonal
       /\ seasonal[<<st, FirstYear, "Winter">>] = 9
       /\ \E i \in 1..Len(df) :
            df[i].Station = st /\ df[i].Year = FirstYear /\ df[i].Month = 13

====
